---- MODULE Spec2Model ----
(***************************************************************************)
(* Model of parse_receipt_text (src/finance_tracker.py, lines 83-122).     *)
(*                                                                         *)
(* A string is a sequence of one-character strings.  A float is a record   *)
(* [kind, neg, num, scale] standing for (-1)^neg * num / 10^scale, or for  *)
(* nan / inf when kind says so; round(x, 2) yields scale 2, so that num is *)
(* then the amount in hundredths.                                          *)
(***************************************************************************)
EXTENDS Integers, Sequences, FiniteSets, TLC

\* ------------------------------------------------------------------------
\* Bounds of the explored inputs
\* ------------------------------------------------------------------------
MaxLines == 3
MaxPairs == 2

\* ------------------------------------------------------------------------
\* Characters
\* ------------------------------------------------------------------------
Digits == {"0", "1", "2", "3", "4", "5", "6", "7", "8", "9"}

DigitVal(c) ==
    CASE c = "0" -> 0 [] c = "1" -> 1 [] c = "2" -> 2 [] c = "3" -> 3
      [] c = "4" -> 4 [] c = "5" -> 5 [] c = "6" -> 6 [] c = "7" -> 7
      [] c = "8" -> 8 [] c = "9" -> 9

DigitChar(n) ==
    CASE n = 0 -> "0" [] n = 1 -> "1" [] n = 2 -> "2" [] n = 3 -> "3"
      [] n = 4 -> "4" [] n = 5 -> "5" [] n = 6 -> "6" [] n = 7 -> "7"
      [] n = 8 -> "8" [] n = 9 -> "9"

LowerLetters == {"a", "b", "c", "d", "e", "f", "g", "h", "i", "j", "k", "l", "m",
                 "n", "o", "p", "q", "r", "s", "t", "u", "v", "w", "x", "y", "z"}

UpperLetters == {"A", "B", "C", "D", "E", "F", "G", "H", "I", "J", "K", "L", "M",
                 "N", "O", "P", "Q", "R", "S", "T", "U", "V", "W", "X", "Y", "Z"}

\* str.strip() with no argument removes these
Whitespace == {" ", "\t", "\n", "\r", "\f"}

\* the regex class \w, which decides where \b holds
IsWord(c) == c \in Digits \/ c \in LowerLetters \/ c \in UpperLetters \/ c = "_"

LowerChar(c) ==
    CASE c = "A" -> "a" [] c = "B" -> "b" [] c = "C" -> "c" [] c = "D" -> "d"
      [] c = "E" -> "e" [] c = "F" -> "f" [] c = "G" -> "g" [] c = "H" -> "h"
      [] c = "I" -> "i" [] c = "J" -> "j" [] c = "K" -> "k" [] c = "L" -> "l"
      [] c = "M" -> "m" [] c = "N" -> "n" [] c = "O" -> "o" [] c = "P" -> "p"
      [] c = "Q" -> "q" [] c = "R" -> "r" [] c = "S" -> "s" [] c = "T" -> "t"
      [] c = "U" -> "u" [] c = "V" -> "v" [] c = "W" -> "w" [] c = "X" -> "x"
      [] c = "Y" -> "y" [] c = "Z" -> "z" [] OTHER -> c

\* ------------------------------------------------------------------------
\* str methods
\* ------------------------------------------------------------------------
\* s.lower()
Lower(s) == [k \in 1..Len(s) |-> LowerChar(s[k])]

\* s.replace(c, "") for a one-character c
RemoveChar(s, c) == SelectSeq(s, LAMBDA x : x # c)

RECURSIVE LStrip(_)
LStrip(s) ==
    IF s # <<>> /\ s[1] \in Whitespace THEN LStrip(Tail(s)) ELSE s

RECURSIVE RStrip(_)
RStrip(s) ==
    IF s # <<>> /\ s[Len(s)] \in Whitespace
    THEN RStrip(SubSeq(s, 1, Len(s) - 1))
    ELSE s

\* s.strip()
Strip(s) == RStrip(LStrip(s))

\* s.startswith(p)
StartsWith(s, p) == Len(s) >= Len(p) /\ SubSeq(s, 1, Len(p)) = p

\* p in s
Contains(s, p) ==
    \E k \in 1..(Len(s) - Len(p) + 1) : SubSeq(s, k, k + Len(p) - 1) = p

\* s[:n]
Prefix(s, n) == IF Len(s) <= n THEN s ELSE SubSeq(s, 1, n)

\* s.split('\n'): the pieces between the newlines of s, empty ones included
Split(s) ==
    LET nl     == { p \in 1..Len(s) : s[p] = "\n" }
        n      == Cardinality(nl)
        cut(k) == IF k = 0 THEN 0
                  ELSE IF k = n + 1 THEN Len(s) + 1
                  ELSE CHOOSE p \in nl : Cardinality({ q \in nl : q <= p }) = k
    IN  [k \in 1..(n + 1) |-> SubSeq(s, cut(k - 1) + 1, cut(k) - 1)]

\* '\n'.join(ls)
RECURSIVE Join(_)
Join(ls) ==
    IF ls = <<>> THEN <<>>
    ELSE IF Len(ls) = 1 THEN ls[1]
    ELSE ls[1] \o <<"\n">> \o Join(Tail(ls))

\* ------------------------------------------------------------------------
\* float(), round(x, 2), str(x)
\* ------------------------------------------------------------------------
RECURSIVE Pow10(_)
Pow10(n) == IF n = 0 THEN 1 ELSE 10 * Pow10(n - 1)

\* index of the last character of the maximal digit run of s that starts at
\* p; p - 1 when s[p] is no digit
RECURSIVE DigitsEnd(_, _)
DigitsEnd(s, p) ==
    IF p <= Len(s) /\ s[p] \in Digits THEN DigitsEnd(s, p + 1) ELSE p - 1

RECURSIVE DigitsToNat(_)
DigitsToNat(ds) ==
    IF ds = <<>> THEN 0
    ELSE 10 * DigitsToNat(SubSeq(ds, 1, Len(ds) - 1)) + DigitVal(ds[Len(ds)])

RECURSIVE NatToDigits(_)
NatToDigits(n) ==
    IF n < 10 THEN <<DigitChar(n)>>
    ELSE Append(NatToDigits(n \div 10), DigitChar(n % 10))

ValueError == [ok |-> FALSE, kind |-> "none", neg |-> FALSE, num |-> 0, scale |-> 0]

Float(kind, neg, num, scale) ==
    [ok |-> TRUE, kind |-> kind, neg |-> neg, num |-> num, scale |-> scale]

\* the float literal 0.0 of line 115
Zero == Float("num", FALSE, 0, 1)

\* float(s): surrounding whitespace, an optional sign, then inf / infinity /
\* nan in any case, or digits with an optional point (at least one digit).
\* Exponent and underscore notation do not occur in the lines of LinePool.
ParseFloat(s) ==
    LET t      == Strip(s)
        signed == t # <<>> /\ t[1] \in {"+", "-"}
        neg    == signed /\ t[1] = "-"
        body   == IF signed THEN Tail(t) ELSE t
        low    == Lower(body)
        d      == DigitsEnd(body, 1)
        point  == d < Len(body) /\ body[d + 1] = "."
        f      == IF point THEN DigitsEnd(body, d + 2) ELSE d
        ipart  == SubSeq(body, 1, d)
        fpart  == IF point THEN SubSeq(body, d + 2, f) ELSE <<>>
    IN  IF low = <<"n", "a", "n">> THEN Float("nan", neg, 0, 0)
        ELSE IF low = <<"i", "n", "f">>
                \/ low = <<"i", "n", "f", "i", "n", "i", "t", "y">>
             THEN Float("inf", neg, 0, 0)
        ELSE IF f = Len(body) /\ Len(ipart) + Len(fpart) >= 1
             THEN Float("num", neg, DigitsToNat(ipart \o fpart), Len(fpart))
        ELSE ValueError

\* round(x, 2).  Exact for numbers of at most two fraction digits, which is
\* every number of LinePool; with more digits the nearest hundredth.
Round2(x) ==
    IF x.kind # "num" THEN x
    ELSE IF x.scale <= 2
         THEN Float("num", x.neg, x.num * Pow10(2 - x.scale), 2)
    ELSE LET unit == Pow10(x.scale - 2)
             q    == x.num \div unit
             r    == x.num % unit
         IN  Float("num", x.neg,
                   IF 2 * r > unit \/ (2 * r = unit /\ q % 2 = 1) THEN q + 1 ELSE q,
                   2)

\* str(x) of a float rounded to two decimals: "4.5", "3.0", "7.75", "-3.5"
FormatAmount(x) ==
    LET sign == IF x.neg THEN <<"-">> ELSE <<>>
        c    == x.num
        frac == IF c % 10 = 0 THEN <<DigitChar((c % 100) \div 10)>>
                ELSE <<DigitChar((c % 100) \div 10), DigitChar(c % 10)>>
    IN  IF x.kind = "nan" THEN <<"n", "a", "n">>
        ELSE IF x.kind = "inf" THEN sign \o <<"i", "n", "f">>
        ELSE sign \o NatToDigits(c \div 100) \o <<".">> \o frac

\* x < 0 and x >= 0 on floats (both false of nan, -0.0 is not negative)
IsNegative(x) ==
    \/ x.kind = "inf" /\ x.neg
    \/ x.kind = "num" /\ x.neg /\ x.num > 0

IsNonNegative(x) == x.kind # "nan" /\ ~IsNegative(x)

\* x == y on floats
FloatEq(x, y) ==
    /\ x.kind # "nan" /\ y.kind # "nan"
    /\ x.kind = y.kind
    /\ \/ x.kind = "inf" /\ x.neg = y.neg
       \/ /\ x.kind = "num"
          /\ x.num * Pow10(y.scale) = y.num * Pow10(x.scale)
          /\ (x.neg = y.neg \/ x.num = 0)

\* ------------------------------------------------------------------------
\* Regular expressions
\* ------------------------------------------------------------------------
\* the patterns of line 101, in order, and the pattern of line 118
price_patterns == <<"dot2", "comma2", "bare">>
total_pattern == "total"

\* last index of the match of pat that starts at p, 0 when there is none
MatchEnd(pat, s, p) ==
    IF ~(p <= Len(s) /\ s[p] \in Digits) THEN 0
    ELSE LET q == DigitsEnd(s, p) IN
         CASE pat = "dot2" ->      \* (\d+\.\d{2})
                IF q + 3 <= Len(s) /\ s[q + 1] = "."
                   /\ s[q + 2] \in Digits /\ s[q + 3] \in Digits
                THEN q + 3 ELSE 0
           [] pat = "comma2" ->    \* (\d+,\d{2})
                IF q + 3 <= Len(s) /\ s[q + 1] = ","
                   /\ s[q + 2] \in Digits /\ s[q + 3] \in Digits
                THEN q + 3 ELSE 0
           [] pat = "bare" ->      \* \b(\d+)\b
                IF (p = 1 \/ ~IsWord(s[p - 1]))
                   /\ (q = Len(s) \/ ~IsWord(s[q + 1]))
                THEN q ELSE 0
           [] pat = "total" ->     \* \d+[\.,]?\d*
                IF q + 1 <= Len(s) /\ s[q + 1] \in {".", ","}
                THEN DigitsEnd(s, q + 2) ELSE q

\* re.findall(pat, s): the matches left to right, none overlapping
RECURSIVE FindFrom(_, _, _)
FindFrom(pat, s, p) ==
    IF p > Len(s) THEN <<>>
    ELSE LET e == MatchEnd(pat, s, p) IN
         IF e = 0 THEN FindFrom(pat, s, p + 1)
         ELSE <<SubSeq(s, p, e)>> \o FindFrom(pat, s, e + 1)

FindAll(pat, s) == FindFrom(pat, s, 1)

\* re.sub(pat, "", s): s without any of the matches
RECURSIVE SubFrom(_, _, _)
SubFrom(pat, s, p) ==
    IF p > Len(s) THEN <<>>
    ELSE LET e == MatchEnd(pat, s, p) IN
         IF e = 0 THEN <<s[p]>> \o SubFrom(pat, s, p + 1)
         ELSE SubFrom(pat, s, e + 1)

ReSub(pat, s) == SubFrom(pat, s, 1)

\* ------------------------------------------------------------------------
\* Input texts
\* ------------------------------------------------------------------------
\* "Tea"
L_Tea == <<"T", "e", "a">>

\* "Total"
L_Total == <<"T", "o", "t", "a", "l">>

\* "Total 7.75"
L_TotalAmt == <<"T", "o", "t", "a", "l", " ", "7", ".", "7", "5">>

\* "Total 0.00"
L_TotalZero == <<"T", "o", "t", "a", "l", " ", "0", ".", "0", "0">>

\* "Subtotal 1,250"
L_Subtotal == <<"S", "u", "b", "t", "o", "t", "a", "l", " ", "1", ",", "2", "5", "0">>

\* "7.75"
L_Price == <<"7", ".", "7", "5">>

\* "-3.50"
L_Minus == <<"-", "3", ".", "5", "0">>

\* "S3.99"
L_Ocr == <<"S", "3", ".", "9", "9">>

\* "Bread 2,50"
L_Comma == <<"B", "r", "e", "a", "d", " ", "2", ",", "5", "0">>

\* "Milk 3"
L_Bare == <<"M", "i", "l", "k", " ", "3">>

\* " "
L_Blank == <<" ">>

\* "nan"
L_NaN == <<"n", "a", "n">>

\* forty-nine times "A", then " B 3.50": a description that line 111 truncates
L_Long ==
    [k \in 1..49 |-> "A"] \o <<" ", "B", " ", "3", ".", "5", "0">>

\* "Coffee"
L_Coffee == <<"C", "o", "f", "f", "e", "e">>

\* "Bagel"
L_Bagel == <<"B", "a", "g", "e", "l">>

\* "4.50"
L_450 == <<"4", ".", "5", "0">>

\* "3.25"
L_325 == <<"3", ".", "2", "5">>

\* the lines the explored texts are made of
LinePool == {L_Tea, L_Total, L_TotalAmt, L_TotalZero, L_Subtotal, L_Minus, L_Ocr,
             L_Comma, L_Bare, L_Blank, L_NaN, L_Long}

\* descriptions and prices of the receipts in paired layout
ReceiptDescs == {L_Coffee, L_Bagel, L_Tea}
ReceiptPrices == {L_450, L_325}

\* the lines d1, p1, d2, p2, ... of a sequence of <<description, price>> pairs
RECURSIVE PairLines(_)
PairLines(ps) ==
    IF ps = <<>> THEN <<>>
    ELSE <<ps[1][1], ps[1][2]>> \o PairLines(Tail(ps))

\* receipts in paired layout that end with "Total" and the total amount
ReceiptTexts ==
    { Join(PairLines(ps) \o <<L_Total, L_Price>>) :
        ps \in UNION { [1..n -> ReceiptDescs \X ReceiptPrices] : n \in 0..MaxPairs } }

\* texts of at most MaxLines lines of LinePool
PoolTexts ==
    { Join(ls) : ls \in UNION { [1..n -> LinePool] : n \in 0..MaxLines } }

Texts == PoolTexts \cup ReceiptTexts

\* ------------------------------------------------------------------------
\* parse_receipt_text
\* ------------------------------------------------------------------------
VARIABLES
    text,       \* the argument
    pc,         \* position in the function body
    lines,      \* line 84
    items,      \* line 85
    i,          \* cursor of the paired-line loop, lines 86-99 (0-based)
    j,          \* number of lines the fallback loop of line 102 has taken
    t,          \* number of lines the total loop of line 116 has taken
    total,      \* line 115
    result,     \* the returned dict of line 122
    origin      \* for each item: the strategy and the 0-based index of the
                \* line (the description line, for a pair) it was made from

vars == <<text, pc, lines, items, i, j, t, total, result, origin>>

NoResult == [items |-> <<>>, total |-> ValueError]

\* line 84: [x.strip() for x in text.strip().split('\n') if x.strip()]
Normalize(txt) ==
    LET raw == Split(Strip(txt))
    IN  SelectSeq([k \in 1..Len(raw) |-> Strip(raw[k])], LAMBDA x : x # <<>>)

\* variant of line 90 that also drops the sign
PriceNormalize_StripSign(price_line) ==
    RemoveChar(RemoveChar(RemoveChar(RemoveChar(price_line, "$"), "S"), ","), "-")

\* line 90: price_line.replace("$", "").replace("S", "").replace(",", "")
PriceNormalize(price_line) ==
    RemoveChar(RemoveChar(RemoveChar(price_line, "$"), "S"), ",")

\* line 91
ReservedKeywords ==
    { <<"t", "o", "t", "a", "l">>, <<"a", "m", "o", "u", "n", "t">>,
      <<"c", "h", "a", "n", "g", "e">>, <<"c", "a", "s", "h">> }

IsReserved(desc) == \E x \in ReservedKeywords : StartsWith(Lower(desc), x)

Item(desc, amount) == [description |-> desc, amount |-> amount]

\* variant of lines 87-99 whose cursor advances by one after an emitted pair
PairedStep_AdvanceOne(ls, k) ==
    LET desc       == ls[k + 1]
        price_line == ls[k + 2]
        price      == ParseFloat(PriceNormalize(price_line))
    IN  IF ~price.ok THEN [i |-> k + 1, emit |-> <<>>]
        ELSE IF IsReserved(desc) THEN [i |-> k + 1, emit |-> <<>>]
        ELSE [i |-> k + 1, emit |-> <<Item(desc, Round2(price))>>]

\* one iteration of the loop of lines 87-99 at cursor k over ls: the new
\* cursor and the items emitted by it (none or one)
PairedStep(ls, k) ==
    LET desc       == ls[k + 1]
        price_line == ls[k + 2]
        price      == ParseFloat(PriceNormalize(price_line))
    IN  IF ~price.ok THEN [i |-> k + 1, emit |-> <<>>]
        ELSE IF IsReserved(desc) THEN [i |-> k + 1, emit |-> <<>>]
        ELSE [i |-> k + 2, emit |-> <<Item(desc, Round2(price))>>]

\* line 108: price_str.replace(",", "")
FallbackNormalize(price_str) == RemoveChar(price_str, ",")

\* lines 103-114 for one line: the items it yields (none or one), trying
\* the patterns from the k-th on
RECURSIVE FallbackFrom(_, _)
FallbackFrom(line, k) ==
    IF k > Len(price_patterns) THEN <<>>
    ELSE LET pattern == price_patterns[k]
             matches == FindAll(pattern, line)
         IN  IF matches = <<>> THEN FallbackFrom(line, k + 1)
             ELSE LET price == ParseFloat(FallbackNormalize(matches[Len(matches)]))
                      desc  == Strip(ReSub(pattern, line))
                  IN  IF ~price.ok THEN FallbackFrom(line, k + 1)
                      ELSE IF Len(desc) > 1
                           THEN <<Item(Prefix(desc, 50), Round2(price))>>
                      ELSE <<>>

FallbackLine(line) == FallbackFrom(line, 1)

\* variant of line 100 that runs the fallback unconditionally
FallbackNeeded_Always(its) == TRUE

\* line 100: if not items
FallbackNeeded(its) == its = <<>>

\* variant of line 117 without .lower()
IsTotalLine_CaseSensitive(line) == Contains(line, <<"t", "o", "t", "a", "l">>)

\* line 117
IsTotalLine(line) == Contains(Lower(line), <<"t", "o", "t", "a", "l">>)

\* variant of line 120 that keeps the commas
TotalNormalize_KeepComma(part) == RemoveChar(part, "S")

\* line 120: parts[-1].replace(",", "").replace("S", "")
TotalNormalize(part) == RemoveChar(RemoveChar(part, ","), "S")

\* variant of lines 117-121 without the break of line 121
TotalLine_NoBreak(line) ==
    LET parts == FindAll(total_pattern, line)
    IN  IF IsTotalLine(line) /\ parts # <<>>
        THEN [assigns |-> TRUE, brk |-> FALSE,
              value |-> ParseFloat(TotalNormalize(parts[Len(parts)]))]
        ELSE [assigns |-> FALSE, brk |-> FALSE, value |-> ValueError]

\* lines 117-121 for one line: whether line 120 runs on it, the float it
\* assigns to total (ValueError when float() raises), and whether the loop
\* breaks after it
TotalLine(line) ==
    LET parts == FindAll(total_pattern, line)
    IN  IF IsTotalLine(line) /\ parts # <<>>
        THEN [assigns |-> TRUE, brk |-> TRUE,
              value |-> ParseFloat(TotalNormalize(parts[Len(parts)]))]
        ELSE [assigns |-> FALSE, brk |-> FALSE, value |-> ValueError]

Init ==
    /\ text \in Texts
    /\ pc = "normalize"
    /\ lines = <<>>
    /\ items = <<>>
    /\ i = 0
    /\ j = 0
    /\ t = 0
    /\ total = Zero
    /\ result = NoResult
    /\ origin = <<>>

\* lines 84-86
Start ==
    /\ pc = "normalize"
    /\ lines' = Normalize(text)
    /\ pc' = "paired"
    /\ UNCHANGED <<text, items, i, j, t, total, result, origin>>

\* lines 87-99, one iteration
PairedIter ==
    /\ pc = "paired"
    /\ i < Len(lines) - 1
    /\ LET step == PairedStep(lines, i)
       IN  /\ i' = step.i
           /\ items' = items \o step.emit
           /\ origin' = origin \o [k \in 1..Len(step.emit) |->
                                      [by |-> "paired", line |-> i]]
    /\ UNCHANGED <<text, pc, lines, j, t, total, result>>

\* the loop of line 87 ends; line 100 decides whether the fallback runs
PairedExit ==
    /\ pc = "paired"
    /\ ~(i < Len(lines) - 1)
    /\ pc' = IF FallbackNeeded(items) THEN "fallback" ELSE "total"
    /\ UNCHANGED <<text, lines, items, i, j, t, total, result, origin>>

\* lines 102-114, one line
FallbackIter ==
    /\ pc = "fallback"
    /\ j < Len(lines)
    /\ LET emit == FallbackLine(lines[j + 1])
       IN  /\ items' = items \o emit
           /\ origin' = origin \o [k \in 1..Len(emit) |->
                                      [by |-> "fallback", line |-> j]]
    /\ j' = j + 1
    /\ UNCHANGED <<text, pc, lines, i, t, total, result>>

\* the loop of line 102 ends
FallbackExit ==
    /\ pc = "fallback"
    /\ j = Len(lines)
    /\ pc' = "total"
    /\ UNCHANGED <<text, lines, items, i, j, t, total, result, origin>>

\* lines 116-121, one line; a ValueError of line 120 leaves the function
TotalIter ==
    /\ pc = "total"
    /\ t < Len(lines)
    /\ LET r == TotalLine(lines[t + 1])
       IN  /\ t' = t + 1
           /\ total' = IF r.assigns /\ r.value.ok THEN r.value ELSE total
           /\ pc' = IF r.assigns /\ ~r.value.ok THEN "raised"
                    ELSE IF r.brk THEN "return" ELSE "total"
    /\ UNCHANGED <<text, lines, items, i, j, result, origin>>

\* the loop of line 116 ends without a break
TotalExit ==
    /\ pc = "total"
    /\ t = Len(lines)
    /\ pc' = "return"
    /\ UNCHANGED <<text, lines, items, i, j, t, total, result, origin>>

\* line 122
Return ==
    /\ pc = "return"
    /\ result' = [items |-> items, total |-> Round2(total)]
    /\ pc' = "done"
    /\ UNCHANGED <<text, lines, items, i, j, t, total, origin>>

Next ==
    \/ Start
    \/ PairedIter
    \/ PairedExit
    \/ FallbackIter
    \/ FallbackExit
    \/ TotalIter
    \/ TotalExit
    \/ Return

Spec == Init /\ [][Next]_vars

TypeOK ==
    /\ pc \in {"normalize", "paired", "fallback", "total", "return", "done", "raised"}
    /\ i \in 0..(Len(lines) + 1)
    /\ j \in 0..Len(lines)
    /\ t \in 0..Len(lines)
    /\ Len(origin) = Len(items)

\* ------------------------------------------------------------------------
\* The two item strategies as whole runs, and the text the items write back
\* ------------------------------------------------------------------------
\* lines 86-99: the items of the paired-line loop over ls from cursor k on
RECURSIVE PairedFrom(_, _)
PairedFrom(ls, k) ==
    IF k < Len(ls) - 1
    THEN LET step == PairedStep(ls, k) IN step.emit \o PairedFrom(ls, step.i)
    ELSE <<>>

PairedRun(ls) == PairedFrom(ls, 0)

\* lines 102-114: the items of the fallback loop over ls
RECURSIVE FallbackRun(_)
FallbackRun(ls) ==
    IF ls = <<>> THEN <<>> ELSE FallbackLine(ls[1]) \o FallbackRun(Tail(ls))

\* the items written back as "description\namount" lines
RECURSIVE ItemLines(_)
ItemLines(its) ==
    IF its = <<>> THEN <<>>
    ELSE <<its[1].description, FormatAmount(its[1].amount)>> \o ItemLines(Tail(its))

Reformat(its) == Join(ItemLines(its))

\* ------------------------------------------------------------------------
\* Vocabulary of the properties
\* ------------------------------------------------------------------------
Done == pc = "done"

Min(S) == CHOOSE x \in S : \A y \in S : x <= y

ZeroTotal == Float("num", FALSE, 0, 2)

\* the lowercase form of the line contains "total"
HasTotalWord(line) ==
    \E k \in 1..(Len(line) - 4) :
        Lower(SubSeq(line, k, k + 4)) = <<"t", "o", "t", "a", "l">>

HasDigit(line) == \E k \in 1..Len(line) : line[k] \in Digits

\* the numbers on a line: the matches of \d+[\.,]?\d* without their commas
NumberOf(part) == Round2(ParseFloat(RemoveChar(part, ",")))

NumbersOn(line) ==
    LET parts == FindAll(total_pattern, line)
    IN  { NumberOf(parts[k]) : k \in 1..Len(parts) }

LastNumberOn(line) ==
    LET parts == FindAll(total_pattern, line) IN NumberOf(parts[Len(parts)])

\* 1-based indices of the lines that contain "total", and of those among
\* them that also hold a number
TotalIdx == { n \in 1..Len(lines) : HasTotalWord(lines[n]) }

QualIdx == { n \in TotalIdx : HasDigit(lines[n]) }

\* the fallback loop has run over all the lines
FallbackRan == Len(lines) > 0 /\ j = Len(lines)

\* the price line of the k-th item, when the paired-line loop emitted it
PriceLineOf(k) == lines[origin[k].line + 2]

\* the first character of the line, other than "$", "S", "," and blanks, is
\* a minus sign
LeadingMinus(line) ==
    LET rest == Strip(SelectSeq(line, LAMBDA c : c \notin {"$", "S", ","}))
    IN  rest # <<>> /\ rest[1] = "-"

NonZero(a) == a.kind = "inf" \/ (a.kind = "num" /\ a.num > 0)

\* ------------------------------------------------------------------------
\* C1
\* ------------------------------------------------------------------------
\* C1: no item has a description whose lowercase form starts with "total",
\* "amount", "change" or "cash", whichever strategy emitted it.
C1_NoReservedItem ==
    \A k \in 1..Len(items) :
        \A x \in ReservedKeywords :
            ~StartsWith(Lower(items[k].description), x)

\* ------------------------------------------------------------------------
\* C2
\* ------------------------------------------------------------------------
\* ls alternates description and price lines and ends with "Total" and a
\* line holding only an amount
IsPairedReceipt(ls) ==
    LET n == Len(ls) IN
    /\ n >= 4 /\ n % 2 = 0
    /\ \A k \in 1..(n - 2) :
          IF k % 2 = 1
          THEN ~ParseFloat(ls[k]).ok /\ ~HasDigit(ls[k]) /\ ~HasTotalWord(ls[k])
          ELSE ParseFloat(ls[k]).ok
    /\ ls[n - 1] = L_Total
    /\ ParseFloat(ls[n]).ok

ReceiptPairs(ls) ==
    [k \in 1..((Len(ls) - 2) \div 2) |->
        Item(ls[2 * k - 1], Round2(ParseFloat(ls[2 * k])))]

\* C2: for a receipt of description/price pairs that ends with "Total" and
\* the total amount, the items are the pairs in order, without the Total
\* pair, and the total is the amount on the line after "Total".
C2_PairedReceipt ==
    (Done /\ IsPairedReceipt(lines)) =>
        /\ result.items = ReceiptPairs(lines)
        /\ result.total = Round2(ParseFloat(lines[Len(lines)]))

\* ------------------------------------------------------------------------
\* C3
\* ------------------------------------------------------------------------
\* s is <d>,<dd>
IsCommaAmount(s) ==
    LET d == DigitsEnd(s, 1) IN
    /\ d >= 1 /\ Len(s) = d + 3
    /\ s[d + 1] = "," /\ s[d + 2] \in Digits /\ s[d + 3] \in Digits

\* the positions of the blank that splits line into "<description> <d>,<dd>"
CommaSplits(line) ==
    { m \in 3..(Len(line) - 1) :
        /\ line[m] = " "
        /\ IsCommaAmount(SubSeq(line, m + 1, Len(line)))
        /\ ~HasDigit(SubSeq(line, 1, m - 1))
        /\ Len(Strip(SubSeq(line, 1, m - 1))) >= 2 }

CommaAsPoint(s) == [k \in 1..Len(s) |-> IF s[k] = "," THEN "." ELSE s[k]]

\* C3: in the fallback a line "<description> <d>,<dd>" yields an item whose
\* amount is d.dd, the comma read as the decimal point.
C3_CommaIsDecimalPoint ==
    (Done /\ FallbackRan) =>
        \A n \in 1..Len(lines) : \A m \in CommaSplits(lines[n]) :
            \E k \in 1..Len(result.items) :
                /\ origin[k] = [by |-> "fallback", line |-> n - 1]
                /\ result.items[k].description = Strip(SubSeq(lines[n], 1, m - 1))
                /\ FloatEq(result.items[k].amount,
                           ParseFloat(CommaAsPoint(SubSeq(lines[n], m + 1, Len(lines[n])))))

C5_Idempotent ==
    Done => PairedRun(Normalize(Reformat(result.items))) = result.items

\* ------------------------------------------------------------------------
\* C6
\* ------------------------------------------------------------------------
\* C6 as stated: the total is >= 0, it is 0.00 exactly when no line holds
\* both "total" and a number, and otherwise it is a number of such a line.
C6_TotalZeroIff ==
    Done =>
        /\ IsNonNegative(result.total)
        /\ FloatEq(result.total, ZeroTotal) <=> (QualIdx = {})
        /\ QualIdx # {} => \E n \in QualIdx : result.total \in NumbersOn(lines[n])

\* C6 as amended: the total is >= 0, it is 0.00 when no line holds both
\* "total" and a number, and otherwise it is a number of such a line (which
\* can be 0.00 as well).
C6_TotalZeroIf ==
    Done =>
        /\ IsNonNegative(result.total)
        /\ (QualIdx = {}) => result.total = ZeroTotal
        /\ QualIdx # {} => \E n \in QualIdx : result.total \in NumbersOn(lines[n])

C6_Witness ==
    /\ Done
    /\ QualIdx # {}
    /\ result.total = ZeroTotal
    /\ t < Len(lines)

\* ------------------------------------------------------------------------
\* C7
\* ------------------------------------------------------------------------
IsBlank(txt) == \A k \in 1..Len(txt) : txt[k] \in Whitespace

\* C7: no ValueError leaves the function, a price line that does not convert
\* emits nothing, and an empty or blank text returns no items and 0.00.
C7_NeverRaises ==
    /\ pc # "raised"
    /\ \A k \in 1..Len(items) :
          origin[k].by = "paired" => ParseFloat(PriceNormalize(PriceLineOf(k))).ok
    /\ (Done /\ IsBlank(text)) => result = [items |-> <<>>, total |-> ZeroTotal]
    /\ Done => (result.total.ok /\ Len(result.items) <= Len(lines))

C7_Witness ==
    /\ Done
    /\ Len(lines) >= 2
    /\ ~ParseFloat(PriceNormalize(lines[2])).ok
    /\ QualIdx # {}

\* ------------------------------------------------------------------------
\* C8
\* ------------------------------------------------------------------------
\* C8: the fallback runs only when the paired-line loop emitted nothing, and
\* the returned items are those of the paired-line loop when it emits any,
\* else those of the fallback.
C8_FallbackOnlyWhenEmpty ==
    /\ (pc = "fallback" \/ j > 0) =>
          \A k \in 1..Len(items) : origin[k].by = "fallback"
    /\ Done =>
          result.items = IF PairedRun(lines) # <<>> THEN PairedRun(lines)
                         ELSE FallbackRun(lines)

C8_Witness ==
    /\ Done
    /\ Len(lines) >= 2
    /\ PairedRun(lines) = <<>>
    /\ result.items # <<>>

\* ------------------------------------------------------------------------
\* C9
\* ------------------------------------------------------------------------
\* C9 as stated: the first line that contains "total" decides the total,
\* which is the rightmost number on that line (0.00 when it holds none); no
\* later line changes it.
C9_FirstTotalLine ==
    (Done /\ TotalIdx # {}) =>
        result.total = IF HasDigit(lines[Min(TotalIdx)])
                       THEN LastNumberOn(lines[Min(TotalIdx)])
                       ELSE ZeroTotal

\* C9 as amended: the scan never passes the first line that contains both
\* "total" and a number; it stops there, the total is the last match of
\* \d+[\.,]?\d* on that line, and without such a line the total is 0.00.
C9_FirstQualifyingLine ==
    /\ QualIdx # {} => t <= Min(QualIdx)
    /\ Done =>
          IF QualIdx # {}
          THEN t = Min(QualIdx) /\ result.total = LastNumberOn(lines[Min(QualIdx)])
          ELSE t = Len(lines) /\ result.total = ZeroTotal

C9_Witness ==
    /\ Done
    /\ Cardinality(QualIdx) >= 2
    /\ Min(TotalIdx) < Min(QualIdx)
    /\ \E n \in QualIdx : LastNumberOn(lines[n]) # result.total

\* ------------------------------------------------------------------------
\* C10
\* ------------------------------------------------------------------------
\* the cursor moves by 1 or 2, and by 2 exactly when lines i and i+1 become
\* an item
CursorStep ==
    (pc = "paired" /\ pc' = "paired") =>
        /\ i' \in {i + 1, i + 2}
        /\ (i' = i + 2) <=> (Len(items') = Len(items) + 1)
        /\ (i' = i + 1) => items' = items
        /\ (i' = i + 2) =>
              items' = Append(items, Item(lines[i + 1],
                                   Round2(ParseFloat(PriceNormalize(lines[i + 2])))))

\* the pairs lie one after the other in the text, sharing no line
PairsInOrder ==
    \A k \in 1..Len(items) :
        origin[k].by = "paired" =>
            /\ origin[k].line + 2 <= Len(lines)
            /\ items[k].description = lines[origin[k].line + 1]
            /\ \A l \in (k + 1)..Len(items) : origin[l].line >= origin[k].line + 2

\* C10: the cursor of the paired-line loop moves forward by 1 or 2 lines, by
\* 2 exactly when an item is emitted; no line is part of two items, each
\* description line directly precedes its price line, and the items keep the
\* order of their lines.
C10_CursorAndPairs == [][CursorStep]_vars /\ []PairsInOrder

C10_Witness ==
    /\ Done
    /\ Len(result.items) >= 2
    /\ \A k \in 1..Len(origin) : origin[k].by = "paired"
    /\ i > 2 * Len(result.items)

====
